---- MODULE Spec2Model ----
(***************************************************************************)
(* Session artifact manifest of the YouTube transcript server: the         *)
(* JSON-backed manifest repository (adapters/manifest_json_repo.py), the   *)
(* session service mutators (services/session_service.py) and the file     *)
(* store they act on.                                                      *)
(*                                                                         *)
(* Time is counted in clock ticks, TicksPerSec ticks to the second; the    *)
(* timestamps the manifest stores are ISO strings of second precision and  *)
(* are modelled by their number of whole seconds.                          *)
(***************************************************************************)
EXTENDS Integers, Sequences, FiniteSets, TLC

\* ---------------------------------------------------------------- bounds
TicksPerSec == 2
MaxNow == 2
MaxIds == 2
NumProcs == 2
MaxRawItems == 2
MaxSegs == 3
MaxFileLen == 3
MaxIdTail == 2
MaxClock == 4

\* ------------------------------------------------------------- constants
Null == -1
Missing == -1
MaxChunkBytes == 200000
IdMaxLen == 64

Paths == {"transcripts/t.txt", "derived/n.txt", "derived/n.md"}
UnsafePaths == {"", "/abs.txt", "../escape.txt"}
TranscriptFormat == {"txt", "vtt", "jsonl"}
ItemKind == {"transcript", "derived"}
Ids == 1..MaxIds
\* the sizes of the files the callers write
Sizes(relpath) == IF relpath = "transcripts/t.txt" THEN {1, 2} ELSE {1}
Ttls == {0, 1}
Ticks == 0..MaxNow

\* configurations of the repository (default_ttl_sec, max_session_items,
\* max_session_bytes), fixed at construction
Configs ==
    [default_ttl_sec : {1}, max_session_items : {0, 1}, max_session_bytes : {0, 2},
     use_lock : {TRUE}]

\* caps disabled
Uncapped(use_lock) ==
    [default_ttl_sec |-> 1, max_session_items |-> 0, max_session_bytes |-> 0,
     use_lock |-> use_lock]

VARIABLES
    manifest,   \* the item entries of manifest.json, as written by save
    files,      \* the artifact files of the session: relpath -> size, or Missing
    now,        \* the clock, in ticks
    usedIds,    \* the item ids generated so far
    cfg,        \* the repository's configuration
    exts,       \* the file extensions the callers of write_text_file use
    last,       \* the last operation and what its cleanup pass did
    names,      \* the session directory: file name -> inode, or NoInode
    inodes,     \* the content of each inode of the session directory
    locks,      \* the flock locks held: <<inode, process>>
    proc,       \* each process: its position in add_item and its locals
    returned,   \* the ids of the items add_item has returned to a process
    input,      \* the argument of a function of the program applied on its own
    output      \* what the function returned or raised

stepVars == <<names, inodes, locks, proc, returned>>
pureVars == <<input, output>>
vars == <<manifest, files, now, usedIds, cfg, exts, last, names, inodes, locks, proc,
          returned, input, output>>

\* ------------------------------------------------------------ time utils
\* _now_iso: the clock reading cut to whole seconds
NowIso(t) == t \div TicksPerSec

\* the stamp of the second that follows now + ttl
ExpiresAtNextSecond(ttl_seconds, t) == (t + ttl_seconds * TicksPerSec) \div TicksPerSec + 1

\* _expires_at: (now + ttl) cut to whole seconds
ExpiresAt(ttl_seconds, t) == (t + ttl_seconds * TicksPerSec) \div TicksPerSec

\* parse_iso_timestamp: None for None, else the instant of the stamp, in ticks
ParseIsoTimestamp(value) == IF value = Null THEN Null ELSE value * TicksPerSec

\* ----------------------------------------------------------- file store
\* SessionStore.resolve_relpath raises ValueError on these
SafeRelpath(relpath) == relpath \notin UnsafePaths

Exists(fs, relpath) == relpath \in DOMAIN fs /\ fs[relpath] # Missing

\* an unlink that removes nothing
UnlinkLeavesFile(fs, relpath, fail) == fs

\* Path.unlink: removes the file unless the call fails with OSError
Unlink(fs, relpath, fail) ==
    IF relpath \in DOMAIN fs /\ relpath \notin fail
    THEN [fs EXCEPT ![relpath] = Missing]
    ELSE fs

\* --------------------------------------------------------------- models
\* ManifestItem.from_dict raises ValueError on an entry whose kind or format
\* is not a member of its enum; load drops such an entry
ValidEntry(raw) == raw.kind \in ItemKind /\ raw.format \in TranscriptFormat

\* ManifestRepository.load: the items of the persisted document
Load(doc) == SelectSeq(doc, ValidEntry)

ItemIds(items) == {items[i].id : i \in 1..Len(items)}

\* ------------------------------------------------------- cleanup_session
\* _item_sort_key: (created_at, or datetime.min when it does not parse; id)
\* (Null lies below every instant, as datetime.min does)
ItemSortKeyById(item) == <<0, item.id>>

ItemSortKey(item) == <<ParseIsoTimestamp(item.created_at), item.id>>

\* an order that puts the newest item first
KeyLessNewestFirst(a, b) ==
    \/ ItemSortKey(a)[1] > ItemSortKey(b)[1]
    \/ ItemSortKey(a)[1] = ItemSortKey(b)[1] /\ ItemSortKey(a)[2] < ItemSortKey(b)[2]

KeyLess(a, b) ==
    \/ ItemSortKey(a)[1] < ItemSortKey(b)[1]
    \/ ItemSortKey(a)[1] = ItemSortKey(b)[1] /\ ItemSortKey(a)[2] < ItemSortKey(b)[2]

\* sorted(..., key=_item_sort_key): a stable sort, by insertion
RECURSIVE InsertSorted(_, _)
InsertSorted(sorted, item) ==
    IF sorted = <<>> THEN <<item>>
    ELSE IF KeyLess(item, Head(sorted)) THEN <<item>> \o sorted
    ELSE <<Head(sorted)>> \o InsertSorted(Tail(sorted), item)

RECURSIVE SortedByKey(_)
SortedByKey(items) ==
    IF items = <<>> THEN <<>>
    ELSE InsertSorted(SortedByKey(SubSeq(items, 1, Len(items) - 1)), items[Len(items)])

\* list.remove: drops the first element equal to the victim
RECURSIVE RemoveFirst(_, _)
RemoveFirst(items, victim) ==
    IF items = <<>> THEN <<>>
    ELSE IF Head(items) = victim THEN Tail(items)
    ELSE <<Head(items)>> \o RemoveFirst(Tail(items), victim)

RECURSIVE SumSizes(_)
SumSizes(items) == IF items = <<>> THEN 0 ELSE Head(items).size + SumSizes(Tail(items))

\* the per-item part of the pass (the for loop): acc is the loop's state
ScanItem(acc, item, t, fail) ==
    IF item.relpath = "" \/ ~SafeRelpath(item.relpath)
    THEN [acc EXCEPT !.changed = TRUE, !.invalid = @ \cup {item.id}]
    ELSE IF ~Exists(acc.fs, item.relpath)
    THEN [acc EXCEPT !.changed = TRUE, !.removed = @ + 1, !.missing = @ \cup {item.id}]
    ELSE
      LET assign == ~item.pinned /\ ParseIsoTimestamp(item.expires_at) = Null
          expires_at == IF assign THEN ExpiresAt(cfg.default_ttl_sec, t) ELSE item.expires_at
          expires_dt == ParseIsoTimestamp(expires_at)
          updated == [item EXCEPT !.expires_at = expires_at]
          size == acc.fs[item.relpath]
      IN  IF ~item.pinned /\ expires_dt # Null /\ t >= expires_dt
          THEN [acc EXCEPT !.fs = Unlink(acc.fs, item.relpath, fail),
                           !.failed = @ \cup ({item.relpath} \cap fail),
                           !.removed = @ + 1,
                           !.changed = TRUE,
                           !.expired = @ \cup {item.id}]
          ELSE [acc EXCEPT !.kept = Append(@, [updated EXCEPT !.size = size]),
                           !.changed = @ \/ assign \/ size # item.size]

RECURSIVE ScanItems(_, _, _, _)
ScanItems(acc, items, t, fail) ==
    IF items = <<>> THEN acc
    ELSE ScanItems(ScanItem(acc, Head(items), t, fail), Tail(items), t, fail)

OverCapsItemsOnly(count, total_size) ==
    cfg.max_session_items > 0 /\ count > cfg.max_session_items

OverCaps(count, total_size) ==
    \/ cfg.max_session_items > 0 /\ count > cfg.max_session_items
    \/ cfg.max_session_bytes > 0 /\ total_size > cfg.max_session_bytes

\* the capacity loop: while removable and a cap is exceeded, evict removable[0]
RECURSIVE EvictLoop(_, _, _, _)
EvictLoop(acc, removable, total_size, fail) ==
    IF removable = <<>> \/ ~OverCaps(Len(acc.kept), total_size) THEN acc
    ELSE LET victim == Head(removable)
             unlinks == SafeRelpath(victim.relpath) /\ Exists(acc.fs, victim.relpath)
         IN  EvictLoop([acc EXCEPT !.fs = IF unlinks THEN Unlink(acc.fs, victim.relpath, fail)
                                          ELSE acc.fs,
                                   !.failed = IF unlinks THEN @ \cup ({victim.relpath} \cap fail)
                                              ELSE @,
                                   !.kept = RemoveFirst(@, victim),
                                   !.removed = @ + 1,
                                   !.changed = TRUE,
                                   !.evicted = Append(@, victim)],
                       Tail(removable), total_size - victim.size, fail)

Unpinned(item) == ~item.pinned

\* a pass whose byte tally counts every loaded entry, dropped or not
CleanupPassCountsDropped(items, fs, t, fail) ==
    LET scanned == ScanItems([kept |-> <<>>, fs |-> fs, removed |-> 0, changed |-> FALSE,
                              invalid |-> {}, missing |-> {}, expired |-> {}, evicted |-> <<>>,
                              failed |-> {}],
                             items, t, fail)
    IN  IF cfg.max_session_items > 0 \/ cfg.max_session_bytes > 0
        THEN EvictLoop(scanned, SortedByKey(SelectSeq(scanned.kept, Unpinned)),
                       SumSizes(items), fail)
        ELSE scanned

\* ManifestRepository.cleanup_session on the loaded items: the kept items,
\* the files, the count returned and whether the manifest is saved
CleanupPass(items, fs, t, fail) ==
    LET scanned == ScanItems([kept |-> <<>>, fs |-> fs, removed |-> 0, changed |-> FALSE,
                              invalid |-> {}, missing |-> {}, expired |-> {}, evicted |-> <<>>,
                              failed |-> {}],
                             items, t, fail)
    IN  IF cfg.max_session_items > 0 \/ cfg.max_session_bytes > 0
        THEN EvictLoop(scanned, SortedByKey(SelectSeq(scanned.kept, Unpinned)),
                       SumSizes(scanned.kept), fail)
        ELSE scanned

\* the document cleanup_session leaves on disk: saved only if changed
AfterCleanup(doc, pass) == IF pass.changed THEN pass.kept ELSE doc

\* ------------------------------------------------------------ operations
NoPass == [kept |-> <<>>, fs |-> files, removed |-> 0, changed |-> FALSE,
           invalid |-> {}, missing |-> {}, expired |-> {}, evicted |-> <<>>, failed |-> {}]

\* the outcomes of Path.unlink: the sets of paths whose unlink raises OSError
FailSets == {{}, Paths}

\* what an operation leaves in `last`: its name, item id and success, and of
\* its cleanup pass the count returned, the ids expired, the (created_at, id)
\* of the items evicted for capacity and the paths whose unlink failed
Outcome(op, id, ok, pass) ==
    [op |-> op, id |-> id, ok |-> ok, removed |-> pass.removed,
     expired |-> pass.expired,
     evicted |-> {<<pass.evicted[i].created_at, pass.evicted[i].id>> : i \in 1..Len(pass.evicted)},
     failed |-> pass.failed, ret |-> <<>>]

\* the requests the callers of add_item build: kind, fmt, relpath, pinned, ttl
\* (ttl_seconds is not read for a pinned item: one value stands for all)
Request(kind, fmt, relpath, pinned, ttl_seconds) ==
    [kind |-> kind, fmt |-> fmt, relpath |-> relpath, pinned |-> pinned,
     ttl_seconds |-> ttl_seconds]

AddRequests ==
    { Request("transcript", "txt", "transcripts/t.txt", FALSE, ttl) : ttl \in Ttls }
    \cup { Request("transcript", "txt", "transcripts/t.txt", TRUE, cfg.default_ttl_sec),
           Request("derived", "txt", "derived/n.txt", FALSE, cfg.default_ttl_sec) }
    \cup { Request("derived", "md", "derived/n.md", FALSE, cfg.default_ttl_sec) : e \in exts \cap {"md"} }

\* ------------------------------------------------ the session directory
Procs == 1..NumProcs

NoInode == 0

ManifestName == "manifest.json"

\* a save that writes the payload to the manifest's own path
SamePath(name) == name

\* save: tmp_path = path.with_name(path.name + ".tmp")
TmpName(name) == name \o ".tmp"

\* a file just created or truncated, and one whose bytes are not a JSON text
EmptyFile == [state |-> "empty", doc |-> <<>>]
Garbled == [state |-> "garbled", doc |-> <<>>]

\* load, reading the file: a missing file and a text json.loads rejects (a
\* zero-byte file, a prefix of a document, mixed bytes) give no items
ReadManifest(ns, ins) ==
    IF ns[ManifestName] = NoInode THEN <<>>
    ELSE IF ins[ns[ManifestName]].state = "complete" THEN Load(ins[ns[ManifestName]].doc)
    ELSE <<>>

\* a process that is not running add_item
Idle(pc) ==
    [pc |-> pc, phase |-> "add", doc |-> <<>>, before |-> <<>>, id |-> 0,
     lh |-> NoInode, th |-> NoInode, failed |-> FALSE]

\* the state after construction: no manifest, no artifact file
InitSession(configs, extensions, running) ==
    /\ manifest = <<>>
    /\ files = [p \in Paths |-> Missing]
    /\ now = 0
    /\ usedIds = {}
    /\ cfg \in configs
    /\ exts = extensions
    /\ last = [op |-> "init", id |-> 0, ok |-> TRUE, removed |-> 0,
               expired |-> {}, evicted |-> {}, failed |-> {}, ret |-> <<>>]
    /\ names = [n \in {ManifestName, TmpName(ManifestName)} |-> NoInode]
    /\ inodes = <<>>
    /\ locks = {}
    /\ proc = [p \in Procs |-> Idle(IF p \in running THEN "idle" ELSE "off")]
    /\ returned = {}

NoCall == [op |-> "none"]

InitWith(configs, extensions, running) ==
    /\ InitSession(configs, extensions, running)
    /\ input = NoCall
    /\ output = NoCall

Init == InitWith(Configs, {"txt"}, {})

\* the clock advances
Tick ==
    /\ now < MaxNow
    /\ now' = now + 1
    /\ last' = Outcome("tick", 0, TRUE, NoPass)
    /\ UNCHANGED <<manifest, files, usedIds, cfg, exts, stepVars, pureVars>>

\* an add_item that reads the clock again, later, for expires_at
NewItemReadsClockTwice(req, item_id, fs, t) ==
    [id |-> item_id, kind |-> req.kind, format |-> req.fmt, relpath |-> req.relpath,
     size |-> fs[req.relpath], created_at |-> NowIso(t),
     expires_at |-> IF req.pinned THEN Null ELSE ExpiresAt(req.ttl_seconds, t + 1),
     pinned |-> req.pinned]

\* ManifestRepository.add_item: the item it builds
NewItem(req, item_id, fs, t) ==
    [id |-> item_id, kind |-> req.kind, format |-> req.fmt, relpath |-> req.relpath,
     size |-> fs[req.relpath], created_at |-> NowIso(t),
     expires_at |-> IF req.pinned THEN Null ELSE ExpiresAt(req.ttl_seconds, t),
     pinned |-> req.pinned]

\* A caller writes the artifact file (writer.write, target.write_text), then
\* ManifestRepository.add_item: load, append, save, cleanup_session
AddItem ==
    \E req \in AddRequests, item_id \in Ids \ usedIds :
        /\ SafeRelpath(req.relpath)
        /\ \E size \in Sizes(req.relpath) :
           LET written == [files EXCEPT ![req.relpath] = size]
               saved == Append(Load(manifest), NewItem(req, item_id, written, now))
           IN  \E pass \in {CleanupPass(Load(saved), written, now, fail) : fail \in FailSets} :
                   /\ manifest' = AfterCleanup(saved, pass)
                   /\ files' = pass.fs
                   /\ last' = [Outcome("add_item", item_id, TRUE, pass) EXCEPT
                                   !.ret = <<req.relpath, req.kind, req.fmt, req.pinned,
                                             req.ttl_seconds,
                                             NewItem(req, item_id, written, now)>>]
        /\ usedIds' = usedIds \cup {item_id}
        /\ UNCHANGED <<now, cfg, exts, stepVars, pureVars>>

\* ManifestRepository.cleanup_session
CleanupSession ==
    \E pass \in {CleanupPass(Load(manifest), files, now, fail) : fail \in FailSets} :
        /\ manifest' = AfterCleanup(manifest, pass)
        /\ files' = pass.fs
        /\ last' = Outcome("cleanup_session", 0, TRUE, pass)
        /\ UNCHANGED <<now, usedIds, cfg, exts, stepVars, pureVars>>

\* the updaters of pin_item, unpin_item and set_item_ttl
PinUpdaterKeepsExpiry(item, ttl_seconds, t) == [item EXCEPT !.pinned = TRUE]

PinUpdater(item, ttl_seconds, t) == [item EXCEPT !.pinned = TRUE, !.expires_at = Null]
UnpinUpdater(item, ttl_seconds, t) ==
    [item EXCEPT !.pinned = FALSE, !.expires_at = ExpiresAt(cfg.default_ttl_sec, t)]

\* a set_item_ttl that leaves the pinned flag as it is
SetTtlKeepsPinned(item, ttl_seconds, t) ==
    [item EXCEPT !.expires_at = ExpiresAt(ttl_seconds, t)]

SetTtlUpdater(item, ttl_seconds, t) ==
    [item EXCEPT !.pinned = FALSE, !.expires_at = ExpiresAt(ttl_seconds, t)]

ApplyUpdater(op, item, ttl_seconds, t) ==
    CASE op = "pin_item" -> PinUpdater(item, ttl_seconds, t)
      [] op = "unpin_item" -> UnpinUpdater(item, ttl_seconds, t)
      [] OTHER -> SetTtlUpdater(item, ttl_seconds, t)

\* an update applied to every item of the manifest
UpdatedItemsAll(items, item_id, op, ttl_seconds, t) ==
    [i \in 1..Len(items) |-> ApplyUpdater(op, items[i], ttl_seconds, t)]

\* SessionService._update_item: the items with the one of that id updated
UpdatedItems(items, item_id, op, ttl_seconds, t) ==
    [i \in 1..Len(items) |->
        IF items[i].id = item_id THEN ApplyUpdater(op, items[i], ttl_seconds, t) ELSE items[i]]

\* SessionService._update_item: updated_item, the value returned, with the
\* ttl_seconds of the call: <<ttl_seconds, pinned, expires_at>>
UpdateReturn(items, item_id, op, ttl_seconds, t) ==
    LET target == CHOOSE i \in 1..Len(items) : items[i].id = item_id
        updated_item == ApplyUpdater(op, items[target], ttl_seconds, t)
    IN  <<ttl_seconds, updated_item.pinned, updated_item.expires_at>>

\* an update that looks the item up in the manifest as it finds it
MutateWithoutCleanup(op, item_id, ttl_seconds) ==
    LET items == Load(manifest)
        found == item_id \in ItemIds(items)
    IN  /\ manifest' = IF found THEN UpdatedItems(items, item_id, op, ttl_seconds, now)
                        ELSE manifest
        /\ files' = files
        /\ last' = [Outcome(op, item_id, found, NoPass) EXCEPT
                        !.ret = IF found
                                THEN UpdateReturn(items, item_id, op, ttl_seconds, now)
                                ELSE <<>>]
        /\ UNCHANGED <<now, usedIds, cfg, exts, stepVars, pureVars>>

\* pin_item, unpin_item, set_item_ttl: cleanup_session, then _update_item,
\* which saves unless the id is not found
Mutate(op, item_id, ttl_seconds) ==
    \E pass \in {CleanupPass(Load(manifest), files, now, fail) : fail \in FailSets} :
        LET cleaned == AfterCleanup(manifest, pass)
            items == Load(cleaned)
            found == item_id \in ItemIds(items)
        IN  /\ manifest' = IF found THEN UpdatedItems(items, item_id, op, ttl_seconds, now)
                            ELSE cleaned
            /\ files' = pass.fs
            /\ last' = [Outcome(op, item_id, found, pass) EXCEPT
                            !.ret = IF found
                                    THEN UpdateReturn(items, item_id, op, ttl_seconds, now)
                                    ELSE <<>>]
            /\ UNCHANGED <<now, usedIds, cfg, exts, stepVars, pureVars>>

PinItem == \E item_id \in usedIds : Mutate("pin_item", item_id, 0)

UnpinItem == \E item_id \in usedIds : Mutate("unpin_item", item_id, 0)

\* a set_item_ttl that accepts every ttl_seconds
RejectsNoTtl(ttl_seconds) == FALSE

\* set_item_ttl: `if ttl_seconds < 1: raise ValueError`
RejectsTtl(ttl_seconds) == ttl_seconds < 1

\* set_item_ttl rejects ttl_seconds < 1 before anything else: ret is then
\* <<ttl_seconds, "ValueError">>
SetItemTtl ==
    \E item_id \in usedIds, ttl_seconds \in Ttls :
        IF RejectsTtl(ttl_seconds)
        THEN /\ last' = [Outcome("set_item_ttl", item_id, FALSE, NoPass) EXCEPT
                            !.ret = <<ttl_seconds, "ValueError">>]
             /\ UNCHANGED <<manifest, files, now, usedIds, cfg, exts, stepVars, pureVars>>
        ELSE Mutate("set_item_ttl", item_id, ttl_seconds)

\* delete_item: cleanup_session, then unlink the item's file (best effort)
\* and save the manifest without it; NotFound leaves what cleanup left
\* a removal that takes every entry with it
WithoutItemOrOthers(items, item_id) == <<>>

\* delete_item: updated_items, the entries other than the target
WithoutItem(items, item_id) ==
    LET keep(item) == item.id # item_id
    IN  SelectSeq(items, keep)

\* a delete that removes the first entry when the id is absent
DeleteResultFirstIfAbsent(doc, fs, t, item_id, fail) ==
    LET pass == CleanupPass(Load(doc), fs, t, fail)
        cleaned == AfterCleanup(doc, pass)
        items == Load(cleaned)
        found == item_id \in ItemIds(items)
    IN  [pass |-> pass, found |-> found,
         doc |-> IF found THEN WithoutItem(items, item_id)
                 ELSE IF items = <<>> THEN cleaned ELSE Tail(items),
         fs |-> pass.fs, failed |-> {}]

DeleteResult(doc, fs, t, item_id, fail) ==
    LET pass == CleanupPass(Load(doc), fs, t, fail)
        cleaned == AfterCleanup(doc, pass)
        items == Load(cleaned)
        found == item_id \in ItemIds(items)
        target == CHOOSE i \in 1..Len(items) : items[i].id = item_id
        unlinks == found /\ SafeRelpath(items[target].relpath)
                         /\ Exists(pass.fs, items[target].relpath)
    IN  [pass |-> pass,
         found |-> found,
         doc |-> IF found THEN WithoutItem(items, item_id) ELSE cleaned,
         fs |-> IF unlinks THEN Unlink(pass.fs, items[target].relpath, fail) ELSE pass.fs,
         failed |-> IF unlinks THEN {items[target].relpath} \cap fail ELSE {}]

DeleteItem ==
    \E item_id \in usedIds :
        \E res \in {DeleteResult(manifest, files, now, item_id, fail) : fail \in FailSets} :
            /\ manifest' = res.doc
            /\ files' = res.fs
            /\ last' = [Outcome("delete_item", item_id, res.found, res.pass) EXCEPT
                            !.failed = @ \cup res.failed]
            /\ UNCHANGED <<now, usedIds, cfg, exts, stepVars, pureVars>>

Next ==
    \/ Tick
    \/ AddItem
    \/ CleanupSession
    \/ PinItem
    \/ UnpinItem
    \/ SetItemTtl
    \/ DeleteItem

Spec == Init /\ [][Next]_vars

\* registration of files of any extension, caps disabled
InitFormats == InitWith({Uncapped(TRUE)}, {"txt", "md"}, {})

SpecFormats == InitFormats /\ [][Next]_vars

\* a default TTL (TRANSCRIPT_TTL_SECONDS=0) that differs from every TTL
\* set_item_ttl accepts
ZeroDefaultTtl == [Uncapped(TRUE) EXCEPT !.default_ttl_sec = 0]

InitTtl == InitWith({ZeroDefaultTtl}, {"txt"}, {})

SpecTtl == InitTtl /\ [][Next]_vars

\* one cap enabled: max_session_items alone, max_session_bytes alone
ItemsCapped == [Uncapped(TRUE) EXCEPT !.max_session_items = 1]

BytesCapped == [Uncapped(TRUE) EXCEPT !.max_session_bytes = 2]

\* caps disabled, the default TTL of Configs
InitUncapped == InitWith({Uncapped(TRUE)}, {"txt"}, {})

SpecUncapped == InitUncapped /\ [][Next]_vars

InitItemsCap == InitWith({ItemsCapped}, {"txt"}, {})

SpecItemsCap == InitItemsCap /\ [][Next]_vars

InitBytesCap == InitWith({BytesCapped}, {"txt"}, {})

SpecBytesCap == InitBytesCap /\ [][Next]_vars

\* ------------------------------------------- add_item, one step at a time
\* The processes of one session run add_item; each step below is one system
\* call (or the local computation up to it) of load, save, _locked_file and
\* cleanup_session.

MainVars == <<manifest, now, cfg, exts, last>>

\* the caller has written the artifact file; add_item: load, build the item
AddLoad ==
    \E p \in Procs :
        /\ proc[p].pc = "idle"
        /\ \E req \in {r \in AddRequests : r.ttl_seconds = cfg.default_ttl_sec},
              item_id \in Ids \ usedIds :
            \E size \in Sizes(req.relpath) :
                LET written == [files EXCEPT ![req.relpath] = size]
                    loaded == ReadManifest(names, inodes)
                IN  /\ files' = written
                    /\ usedIds' = usedIds \cup {item_id}
                    /\ proc' = [proc EXCEPT ![p] =
                                   [Idle("lock") EXCEPT
                                       !.doc = Append(loaded, NewItem(req, item_id, written, now)),
                                       !.before = loaded, !.id = item_id]]
        /\ UNCHANGED <<MainVars, pureVars, names, inodes, locks, returned>>

\* save, _locked_file: path.open("a+") creates manifest.json when it is absent
OpenLock ==
    \E p \in Procs :
        /\ proc[p].pc = "lock"
        /\ IF cfg.use_lock
           THEN LET created == names[ManifestName] = NoInode
                    ino == IF created THEN Len(inodes) + 1 ELSE names[ManifestName]
                IN  /\ inodes' = IF created THEN Append(inodes, EmptyFile) ELSE inodes
                    /\ names' = [names EXCEPT ![ManifestName] = ino]
                    /\ proc' = [proc EXCEPT ![p].pc = "flock", ![p].lh = ino]
           ELSE /\ proc' = [proc EXCEPT ![p].pc = "open"]
                /\ UNCHANGED <<names, inodes>>
        /\ UNCHANGED <<MainVars, pureVars, files, usedIds, locks, returned>>

\* _locked_file: flock(LOCK_EX) on the open file waits for the other holders
\* of a lock on the same inode
Flock ==
    \E p \in Procs :
        /\ proc[p].pc = "flock"
        /\ \A q \in Procs \ {p} : <<proc[p].lh, q>> \notin locks
        /\ locks' = locks \cup {<<proc[p].lh, p>>}
        /\ proc' = [proc EXCEPT ![p].pc = "open"]
        /\ UNCHANGED <<MainVars, pureVars, files, usedIds, names, inodes, returned>>

\* save: tmp_path.open("w") creates the temporary file or truncates it
OpenTmp ==
    \E p \in Procs :
        /\ proc[p].pc = "open"
        /\ LET tmp == TmpName(ManifestName)
               created == names[tmp] = NoInode
               ino == IF created THEN Len(inodes) + 1 ELSE names[tmp]
           IN  /\ inodes' = IF created THEN Append(inodes, EmptyFile)
                            ELSE [inodes EXCEPT ![ino] = EmptyFile]
               /\ names' = [names EXCEPT ![tmp] = ino]
               /\ proc' = [proc EXCEPT ![p].pc = "write", ![p].th = ino]
        /\ UNCHANGED <<MainVars, pureVars, files, usedIds, locks, returned>>

\* what a write through a handle leaves in the file: the writer's bytes at the
\* writer's offset, over whatever another handle wrote or truncated meanwhile
WriteOutcomes(content, doc, pc) ==
    LET mine(state) == [state |-> state, doc |-> doc]
    IN  IF pc = "write"
        THEN IF content.state = "empty" THEN {mine("partial")}
             ELSE {mine("partial"), Garbled}
        ELSE IF content = mine("partial") THEN {mine("complete")}
             ELSE IF content.state = "empty" THEN {Garbled}
             ELSE {mine("complete"), Garbled}

\* save: json.dump writes the payload, first a part, then (flush, fsync) all
WriteTmp ==
    \E p \in Procs :
        /\ proc[p].pc \in {"write", "flush"}
        /\ \E content \in WriteOutcomes(inodes[proc[p].th], proc[p].doc, proc[p].pc) :
               inodes' = [inodes EXCEPT ![proc[p].th] = content]
        /\ proc' = [proc EXCEPT ![p].pc = IF @ = "write" THEN "flush" ELSE "replace"]
        /\ UNCHANGED <<MainVars, pureVars, files, usedIds, names, locks, returned>>

\* save: os.replace(tmp_path, path); FileNotFoundError when tmp_path is gone
Replace ==
    \E p \in Procs :
        /\ proc[p].pc = "replace"
        /\ LET tmp == TmpName(ManifestName)
           IN  IF names[tmp] = NoInode
               THEN /\ proc' = [proc EXCEPT ![p].pc = "unlock", ![p].failed = TRUE]
                    /\ UNCHANGED names
               ELSE /\ proc' = [proc EXCEPT ![p].pc = "unlock"]
                    /\ names' = IF tmp = ManifestName THEN names
                                ELSE [names EXCEPT ![ManifestName] = names[tmp],
                                                   ![tmp] = NoInode]
        /\ UNCHANGED <<MainVars, pureVars, files, usedIds, inodes, locks, returned>>

\* _locked_file: flock(LOCK_UN); then save returns or raises
Unlock ==
    \E p \in Procs :
        /\ proc[p].pc = "unlock"
        /\ locks' = locks \ {<<proc[p].lh, p>>}
        /\ IF proc[p].failed
           THEN /\ proc' = [proc EXCEPT ![p].pc = "idle"]
                /\ UNCHANGED returned
           ELSE IF proc[p].phase = "add"
           THEN /\ proc' = [proc EXCEPT ![p].pc = "cleanup"]
                /\ UNCHANGED returned
           ELSE /\ proc' = [proc EXCEPT ![p].pc = "idle"]
                /\ returned' = returned \cup {proc[p].id}
        /\ UNCHANGED <<MainVars, pureVars, files, usedIds, names, inodes>>

\* add_item: cleanup_session (load, the pass, save when changed), return item
Cleanup ==
    \E p \in Procs :
        /\ proc[p].pc = "cleanup"
        /\ \E pass \in {CleanupPass(ReadManifest(names, inodes), files, now, fail) :
                            fail \in FailSets} :
            /\ files' = pass.fs
            /\ IF pass.changed
               THEN /\ proc' = [proc EXCEPT ![p].pc = "lock", ![p].phase = "cleanup",
                                            ![p].doc = pass.kept,
                                            ![p].before = ReadManifest(names, inodes)]
                    /\ UNCHANGED returned
               ELSE /\ proc' = [proc EXCEPT ![p].pc = "idle"]
                    /\ returned' = returned \cup {proc[p].id}
        /\ UNCHANGED <<MainVars, pureVars, usedIds, names, inodes, locks>>

\* the process dies inside add_item (its locks go with it); another starts
Crash ==
    \E p \in Procs :
        /\ proc[p].pc \notin {"idle", "off"}
        /\ locks' = {l \in locks : l[2] # p}
        /\ proc' = [proc EXCEPT ![p].pc = "idle"]
        /\ UNCHANGED <<MainVars, pureVars, files, usedIds, names, inodes, returned>>

NextStep ==
    \/ AddLoad
    \/ OpenLock
    \/ Flock
    \/ OpenTmp
    \/ WriteTmp
    \/ Replace
    \/ Unlock
    \/ Cleanup
    \/ Crash

\* one process, with and without the lock, interrupted at any step
InitCrash == InitWith({Uncapped(TRUE), Uncapped(FALSE)}, {"txt"}, {1})

SpecCrash == InitCrash /\ [][NextStep]_vars

\* the processes of one session, the lock enabled
InitLocked == InitWith({Uncapped(TRUE)}, {"txt"}, Procs)

SpecLocked == InitLocked /\ [][NextStep]_vars

\* the processes of one session, the lock disabled (_locked_file yields at
\* once: no flock), none of them interrupted
NextUnlocked ==
    \/ AddLoad
    \/ OpenLock
    \/ OpenTmp
    \/ WriteTmp
    \/ Replace
    \/ Unlock
    \/ Cleanup

InitUnlocked == InitWith({Uncapped(FALSE)}, {"txt"}, Procs)

SpecUnlocked == InitUnlocked /\ [][NextUnlocked]_vars

\* ------------------------------------------------- load, on any document
\* The raw values an entry of manifest.json can hold for the fields
\* from_dict converts: id, kind, format, size (a JSON number, a string that
\* is no number, null) and relpath (present or absent).
RawEntries ==
    [id : {"tr_1", ""}, kind : {"transcript", "zz"}, format : {"txt", "md"},
     size : {"1", "abc", "null"}, relpath : {"transcripts/t.txt", "absent"}]
        \cup {[id |-> "not_mapping"]}

RECURSIVE SeqsUpTo(_, _)
SeqsUpTo(set, n) ==
    IF n = 0 THEN {<<>>}
    ELSE LET shorter == SeqsUpTo(set, n - 1)
         IN  shorter \cup {Append(seq, x) : seq \in {q \in shorter : Len(q) = n - 1}, x \in set}

\* the contents of manifest.json: no file, bytes that are not UTF-8, a text
\* that is not JSON, a JSON value that is no object, an object whose "items"
\* is no list, an object with a list of entries
RawFiles ==
    {[text |-> t, items |-> <<>>] :
        t \in {"missing", "not_utf8", "malformed", "non_object", "items_not_list"}}
    \cup {[text |-> "object", items |-> items] : items \in SeqsUpTo(RawEntries, MaxRawItems)}

\* ItemId.__post_init__: _validate_id
ValidId(id) == id # ""

\* ManifestItem.from_dict: the fields are converted in the order id, kind,
\* format, relpath, size; ItemId, ItemKind and TranscriptFormat raise
\* ValueError, int raises ValueError on a string that is no number and
\* TypeError on null; a missing relpath defaults to ""
FromDict(raw) ==
    IF ~ValidId(raw.id) \/ raw.kind \notin ItemKind \/ raw.format \notin TranscriptFormat
    THEN [raised |-> "ValueError"]
    ELSE IF raw.size = "abc" THEN [raised |-> "ValueError"]
    ELSE IF raw.size = "null" THEN [raised |-> "TypeError"]
    ELSE [raised |-> "none",
          item |-> [id |-> raw.id, kind |-> raw.kind, format |-> raw.format,
                    relpath |-> IF raw.relpath = "absent" THEN "" ELSE raw.relpath,
                    size |-> 1]]

\* load: the loop over raw_items
RECURSIVE LoadItems(_, _)
LoadItems(acc, raws) ==
    IF raws = <<>> THEN [raised |-> "none", items |-> acc]
    ELSE IF Head(raws).id = "not_mapping" THEN LoadItems(acc, Tail(raws))
    ELSE LET parsed == FromDict(Head(raws))
         IN  IF parsed.raised = "ValueError" THEN LoadItems(acc, Tail(raws))
             ELSE IF parsed.raised # "none" THEN [raised |-> parsed.raised, items |-> <<>>]
             ELSE LoadItems(Append(acc, parsed.item), Tail(raws))

\* ManifestRepository.load: read_text raises UnicodeDecodeError (which is
\* neither OSError nor JSONDecodeError) on bytes that are not UTF-8
LoadFile(file) ==
    IF file.text = "not_utf8" THEN [raised |-> "UnicodeDecodeError", items |-> <<>>]
    ELSE IF file.text # "object" THEN [raised |-> "none", items |-> <<>>]
    ELSE LoadItems(<<>>, file.items)

InitLoad ==
    /\ InitSession({Uncapped(FALSE)}, {"txt"}, {})
    /\ input \in RawFiles
    /\ output = NoCall

LoadCall ==
    /\ output = NoCall
    /\ output' = [op |-> "load", result |-> LoadFile(input)]
    /\ UNCHANGED <<manifest, files, now, usedIds, cfg, exts, last, stepVars, input>>

SpecLoad == InitLoad /\ [][LoadCall]_vars

\* --------------------------------------------------------- resolve_relpath
\* A relpath is modelled by relpath.split("/"): "" is <<"">>, "/a" is
\* <<"", "a">>, "a/../b" is <<"a", "..", "b">>. A directory is the sequence
\* of names from the file system root.
Segments == {"", ".", "..", "a", "in", "out"}

RelPaths == SeqsUpTo(Segments, MaxSegs) \ {<<>>}

SessionRoot == <<"data", "sess">>

\* the symbolic links that may have been placed in the session root, and
\* the directories they point to
LinkTarget(name) == IF name = "in" THEN <<"data", "sess", "a">> ELSE <<"data", "elsewhere">>
Links == {"in", "out"}

\* a check that lets ".." segments through
UnsafeSegmentsNoDotDot(segs) == segs = <<"">> \/ (Len(segs) >= 2 /\ segs[1] = "")

\* resolve_relpath: not relpath or relpath.startswith("/") or ".." in split
UnsafeSegments(segs) ==
    \/ segs = <<"">>
    \/ Len(segs) >= 2 /\ segs[1] = ""
    \/ \E i \in 1..Len(segs) : segs[i] = ".."

\* Path.resolve: "" and "." stay, ".." goes to the parent, a symbolic
\* link goes to its target, any other name goes down
RECURSIVE Resolve(_, _, _)
Resolve(dir, segs, links) ==
    IF segs = <<>> THEN dir
    ELSE LET seg == Head(segs)
             next == IF seg \in {"", "."} THEN dir
                     ELSE IF seg = ".."
                     THEN (IF dir = <<>> THEN dir ELSE SubSeq(dir, 1, Len(dir) - 1))
                     ELSE IF dir = SessionRoot /\ seg \in links THEN LinkTarget(seg)
                     ELSE Append(dir, seg)
         IN  Resolve(next, Tail(segs), links)

\* a check that accepts every path
AnywhereIsWithinRoot(path, root) == TRUE

\* _is_within_root: path.relative_to(root) succeeds
IsWithinRoot(path, root) ==
    Len(path) >= Len(root) /\ SubSeq(path, 1, Len(root)) = root

\* SessionStore.resolve_relpath
ResolveRelpath(segs, links) ==
    IF UnsafeSegments(segs) THEN [raised |-> "ValueError", path |-> <<>>]
    ELSE IF ~IsWithinRoot(Resolve(SessionRoot, segs, links), SessionRoot)
    THEN [raised |-> "ValueError", path |-> <<>>]
    ELSE [raised |-> "none", path |-> Resolve(SessionRoot, segs, links)]

InitResolve ==
    /\ InitSession({Uncapped(FALSE)}, {"txt"}, {})
    /\ input \in [relpath : RelPaths, links : SUBSET Links]
    /\ output = NoCall

ResolveCall ==
    /\ output = NoCall
    /\ output' = [op |-> "resolve_relpath",
                  result |-> ResolveRelpath(input.relpath, input.links)]
    /\ UNCHANGED <<manifest, files, now, usedIds, cfg, exts, last, stepVars, input>>

SpecResolve == InitResolve /\ [][ResolveCall]_vars

\* ------------------------------------- cleanup_session on a stored manifest
\* A manifest.json as ManifestRepository.save writes it for any items handed
\* to it: two entries whose relpath may be empty or unsafe, whose file may be
\* missing or of another size, and whose expires_at may be absent.
StoredPaths == {"transcripts/t.txt", "derived/n.txt"} \cup UnsafePaths

StoredItems(item_id) ==
    {[id |-> item_id, kind |-> "transcript", format |-> "txt", relpath |-> relpath,
      size |-> size, created_at |-> NowIso(0), expires_at |-> expires_at, pinned |-> pinned] :
        relpath \in StoredPaths, size \in Sizes("transcripts/t.txt"),
        expires_at \in {Null, ExpiresAt(1, 0)}, pinned \in BOOLEAN}

\* (a stored expires_at is not read for a pinned item: one value stands for all)
StoredManifests ==
    LET PinnedPlain(item) == item.pinned => item.expires_at = Null
        First == {item \in StoredItems(1) : PinnedPlain(item)}
        Second == {item \in StoredItems(2) : PinnedPlain(item)}
    IN  {<<>>} \cup {<<a>> : a \in First} \cup {<<a, b>> : a \in First, b \in Second}

StoredFiles ==
    {[p \in Paths |-> IF p = "transcripts/t.txt" THEN t
                      ELSE IF p = "derived/n.txt" THEN n ELSE Missing] :
        t \in {Missing} \cup Sizes("transcripts/t.txt"), n \in {Missing} \cup Sizes("derived/n.txt")}

CleanupConfigs ==
    [default_ttl_sec : {0, 1}, max_session_items : {0, 1}, max_session_bytes : {0, 2},
     use_lock : {FALSE}]

\* cleanup_session writes the manifest on every pass
SavesAlways(pass) == TRUE

\* cleanup_session: `if changed: self.save(...)`
Saves(pass) == pass.changed

InitCleanup ==
    /\ InitSession(CleanupConfigs, {"txt"}, {})
    /\ input \in [items : StoredManifests, files : StoredFiles, now : Ticks]
    /\ output = NoCall

CleanupCall ==
    /\ output = NoCall
    /\ \E pass \in {CleanupPass(Load(input.items), input.files, input.now, fail) :
                        fail \in FailSets} :
           output' = [op |-> "cleanup_session", pass |-> pass, saved |-> Saves(pass),
                      result |-> pass.removed]
    /\ UNCHANGED <<manifest, files, now, usedIds, cfg, exts, last, stepVars, input>>

SpecCleanup == InitCleanup /\ [][CleanupCall]_vars

\* ------------------------------------------------------------ list_items
\* The manifests list_items is applied to: up to two registered items of
\* either kind, of format txt or vtt, pinned or not.
ListedItems(item_id) ==
    {[id |-> item_id, kind |-> kind, format |-> format,
      relpath |-> IF kind = "transcript" THEN "transcripts/t.txt" ELSE "derived/n.txt",
      size |-> 1, created_at |-> NowIso(0),
      expires_at |-> IF pinned THEN Null ELSE ExpiresAt(1, 0), pinned |-> pinned] :
        kind \in ItemKind, format \in {"txt", "vtt"}, pinned \in BOOLEAN}

ListedManifests ==
    {<<>>} \cup {<<a>> : a \in ListedItems(1)}
           \cup {<<a, b>> : a \in ListedItems(1), b \in ListedItems(2)}

ListedFiles ==
    {[p \in Paths |-> IF p = "transcripts/t.txt" THEN t
                      ELSE IF p = "derived/n.txt" THEN n ELSE Missing] :
        t \in {Missing, 1}, n \in {Missing, 1}}

\* a filter argument: {} when it is None, else the one value supplied
Filters(values) == {{}} \cup {{v} : v \in values}

\* str() of a member of TranscriptFormat (a str-mixin Enum): the member's
\* qualified name, not its value
StrOfFormat(format) ==
    CASE format = "txt" -> "TranscriptFormat.TXT"
      [] format = "vtt" -> "TranscriptFormat.VTT"
      [] format = "jsonl" -> "TranscriptFormat.JSONL"
      [] OTHER -> format

\* ManifestRepository.list_items on the loaded items (ManifestItem.from_dict
\* has made kind an ItemKind and format a TranscriptFormat)
ListItems(items, kind, format, pinned) ==
    LET KindIs(item) == kind = {} \/ item.kind \in kind
        FormatIs(item) == format = {} \/ StrOfFormat(item.format) \in format
        PinnedIs(item) == pinned = {} \/ item.pinned \in pinned
    IN  SelectSeq(SelectSeq(SelectSeq(items, KindIs), FormatIs), PinnedIs)

InitList ==
    /\ InitSession({Uncapped(FALSE)}, {"txt"}, {})
    /\ input \in [items : ListedManifests, files : ListedFiles, now : Ticks,
                  kind : Filters(ItemKind), format : Filters({"txt", "vtt"}),
                  pinned : Filters(BOOLEAN)]
    /\ output = NoCall

\* SessionService.list_items: cleanup_session, then repo.list_items
ListCall ==
    /\ output = NoCall
    /\ \E pass \in {CleanupPass(Load(input.items), input.files, input.now, fail) :
                        fail \in FailSets} :
           output' = [op |-> "list_items",
                      survivors |-> Load(AfterCleanup(input.items, pass)),
                      result |-> ListItems(Load(AfterCleanup(input.items, pass)),
                                           input.kind, input.format, input.pinned)]
    /\ UNCHANGED <<manifest, files, now, usedIds, cfg, exts, last, stepVars, input>>

SpecList == InitList /\ [][ListCall]_vars


\* ----------------------------------------------------- read_file_chunk
\* the bytes of a UTF-8 text file: "a" is a one-byte character, "L" "C" the
\* lead and continuation byte of a two-byte character
RECURSIVE Encode(_)
Encode(text) ==
    IF text = <<>> THEN <<>>
    ELSE (IF Head(text) = "a" THEN <<"a">> ELSE <<"L", "C">>) \o Encode(Tail(text))

\* bytes.decode("utf-8", errors="replace"): a byte that starts no complete
\* character becomes U+FFFD, written "?"
RECURSIVE Decode(_)
Decode(bytes) ==
    IF bytes = <<>> THEN <<>>
    ELSE IF Head(bytes) = "a" THEN <<"a">> \o Decode(Tail(bytes))
    ELSE IF Head(bytes) = "L" /\ Len(bytes) > 1 /\ bytes[2] = "C"
         THEN <<"e">> \o Decode(Tail(Tail(bytes)))
    ELSE <<"?">> \o Decode(Tail(bytes))

\* SessionService._find_item: the first item with the id or the relpath asked for
FindItem(items, item_id, relpath) ==
    LET Asked(item) == \/ item_id # Null /\ item.id = item_id
                       \/ relpath # "" /\ item.relpath = relpath
    IN  SelectSeq(items, Asked)

\* read_file_chunk once the file is known to exist: stat, seek, read, decode
ReadChunk(content, offset, max_bytes) ==
    LET size == Len(content)
        end == IF offset + max_bytes < size THEN offset + max_bytes ELSE size
        chunk == SubSeq(content, offset + 1, end)
        next_offset == offset + Len(chunk)
    IN  IF offset >= size
        THEN [data |-> <<>>, next_offset |-> offset, eof |-> TRUE, size |-> size]
        ELSE [data |-> Decode(chunk), next_offset |-> next_offset,
              eof |-> next_offset >= size, size |-> size]

\* the calls of a reader that starts at offset and feeds next_offset back
\* until eof
RECURSIVE Pages(_, _, _)
Pages(content, offset, max_bytes) ==
    LET page == ReadChunk(content, offset, max_bytes)
    IN  IF page.eof THEN <<page>>
        ELSE <<page>> \o Pages(content, page.next_offset, max_bytes)

\* SessionService.read_file_chunk
ReadFileChunk(content, items, fs, t, fail, offset, max_bytes, item_id, relpath) ==
    LET Raise(error) == [op |-> "read_file_chunk", raised |-> error,
                         chunk |-> [data |-> <<>>, next_offset |-> Null, eof |-> FALSE,
                                    size |-> Null],
                         id |-> Null, pages |-> <<>>]
        pass == CleanupPass(Load(items), fs, t, fail)
        found == FindItem(Load(AfterCleanup(items, pass)), item_id, relpath)
        path == IF found # <<>> THEN found[1].relpath ELSE relpath
    IN  IF item_id = Null /\ relpath = "" THEN Raise("ValueError")
        ELSE IF max_bytes < 1 \/ max_bytes > MaxChunkBytes THEN Raise("ValueError")
        ELSE IF offset < 0 THEN Raise("ValueError")
        ELSE IF found = <<>> /\ relpath = "" THEN Raise("NotFoundError")
        ELSE IF ~Exists(pass.fs, path) THEN Raise("ValueError")
        ELSE [op |-> "read_file_chunk", raised |-> "",
              chunk |-> ReadChunk(content, offset, max_bytes),
              id |-> IF found # <<>> THEN found[1].id ELSE Null,
              pages |-> Pages(content, 0, max_bytes)]

\* a registered text file of at most MaxFileLen bytes, read from any offset
\* with any max_bytes, by id or by relpath
InitChunk ==
    /\ InitSession({Uncapped(FALSE)}, {"txt"}, {})
    /\ input \in [content : {Encode(text) : text \in SeqsUpTo({"a", "e"}, MaxFileLen)}
                                \cap SeqsUpTo({"a", "L", "C"}, MaxFileLen),
                  pinned : BOOLEAN, now : Ticks,
                  offset : -1..(MaxFileLen + 1),
                  max_bytes : {0, MaxChunkBytes + 1} \cup 1..MaxFileLen,
                  item_id : {Null, 1}, relpath : {"", "transcripts/t.txt"}]
    /\ output = NoCall

ChunkCall ==
    /\ output = NoCall
    /\ \E fail \in FailSets :
           output' = ReadFileChunk(
               input.content,
               <<[id |-> 1, kind |-> "transcript", format |-> "txt",
                  relpath |-> "transcripts/t.txt", size |-> Len(input.content),
                  created_at |-> NowIso(0),
                  expires_at |-> IF input.pinned THEN Null ELSE ExpiresAt(1, 0),
                  pinned |-> input.pinned]>>,
               [p \in Paths |-> IF p = "transcripts/t.txt" THEN Len(input.content)
                                ELSE Missing],
               input.now, fail, input.offset, input.max_bytes, input.item_id,
               input.relpath)
    /\ UNCHANGED <<manifest, files, now, usedIds, cfg, exts, last, stepVars, input>>

SpecChunk == InitChunk /\ [][ChunkCall]_vars


\* ------------------------------------------------------- identifiers
\* an id string: pad characters of [A-Za-z0-9_-], then the characters of
\* tail ("a" one of that charset, " " a space, "nl" a newline)
IdStrings ==
    {[pad |-> pad, tail |-> tail] :
        pad \in {0, IdMaxLen - 1}, tail \in SeqsUpTo({"a", " ", "nl"}, MaxIdTail)}

\* _ID_RE.match(value) for ^[A-Za-z0-9_-]{1,64}$: "$" matches at the end of
\* the string and also just before a newline that ends it
MatchesIdRe(value) ==
    LET n == value.pad + Len(value.tail)
        Charset(k) == \A i \in 1..k : value.tail[i] = "a"
    IN  \/ n \in 1..IdMaxLen /\ Charset(Len(value.tail))
        \/ /\ (n - 1) \in 1..IdMaxLen
           /\ value.tail # <<>>
           /\ value.tail[Len(value.tail)] = "nl"
           /\ Charset(Len(value.tail) - 1)

\* _validate_id: the error it raises, "" when it returns the value
ValidateId(value, name) ==
    IF value.pad + Len(value.tail) = 0 \/ ~MatchesIdRe(value)
    THEN IF name = "session_id" THEN "InvalidSessionId" ELSE "InvalidItemId"
    ELSE ""

ItemOps == {"pin_item", "unpin_item", "set_item_ttl", "delete_item", "read_file_info",
            "read_file_chunk"}

SessionOps == ItemOps \cup {"list_items", "write_text_file", "cleanup_session", "add_item"}

\* what an operation does before its first file system access: the argument
\* checks and the id coercions, in the code's order; the error raised, or ""
Prologue(op, session_id, item_id, ttl_seconds, relpath) ==
    LET sid == ValidateId(session_id, "session_id")
        target_id == ValidateId(item_id, "item_id")
        ids == IF sid # "" THEN sid ELSE IF op \in ItemOps THEN target_id ELSE ""
        no_item_id == item_id.pad + Len(item_id.tail) = 0
    IN  CASE op = "set_item_ttl" -> IF RejectsTtl(ttl_seconds) THEN "ValueError" ELSE ids
          [] op = "write_text_file" -> IF ~SafeRelpath(relpath) THEN "ValueError" ELSE ids
          [] op \in {"read_file_info", "read_file_chunk"} ->
                 IF no_item_id /\ relpath = "" THEN "ValueError"
                 ELSE IF sid # "" THEN sid
                 ELSE IF no_item_id THEN "" ELSE target_id
          [] OTHER -> ids

InitIds ==
    /\ InitSession({Uncapped(FALSE)}, {"txt"}, {})
    /\ input \in [op : SessionOps, id : IdStrings, name : {"session_id", "item_id"},
                  other : {[pad |-> 0, tail |-> <<"a">>], [pad |-> 0, tail |-> <<" ">>]},
                  ttl_seconds : {0, 1}, relpath : {"", "../escape.txt", "derived/n.txt"}]
    /\ output = NoCall

\* an operation called with these ids: it raises in its prologue, or goes on
\* to SessionStore.session_root, which creates the session's directories
IdCall ==
    /\ output = NoCall
    /\ LET session_id == IF input.name = "session_id" THEN input.id ELSE input.other
           item_id == IF input.name = "item_id" THEN input.id ELSE input.other
           raised == Prologue(input.op, session_id, item_id, input.ttl_seconds,
                              input.relpath)
       IN  output' = [op |-> input.op, session_id |-> session_id, item_id |-> item_id,
                      raised |-> raised,
                      dirs |-> IF raised = "" THEN {session_id} ELSE {}]
    /\ UNCHANGED <<manifest, files, now, usedIds, cfg, exts, last, stepVars, input>>

SpecIds == InitIds /\ [][IdCall]_vars


\* ---------------------------------------------------- write_text_file
\* The relpaths given to write_text_file are relative to derived/; "escape"
\* is a name in derived/ that is a symbolic link to a directory outside the
\* session when one has been planted, a plain directory otherwise.

\* target.relative_to(session_root).as_posix() of a safe relpath
UnderDerived(relpath) ==
    CASE relpath = "n.txt" -> "derived/n.txt"
      [] relpath = "n.md" -> "derived/n.md"
      [] OTHER -> "derived/escape/file.txt"

\* the outcome of an operation applied to a stored session: the error it
\* raised ("" if none), the manifest document and the files it leaves, whether
\* it created the session's directories, the cleanup passes it ran, the
\* item it returned, the files it leaves in the derived directory of another
\* session
Ended(raised, why, doc, fs, made, passes, ret, other) ==
    [raised |-> raised, why |-> why, items |-> doc, fs |-> fs, made |-> made,
     passes |-> passes, ret |-> ret, other |-> other]

\* an add_item that runs its cleanup pass before it resolves the relpath
AddItemCleansFirst(items, fs, t, fail, req, item_id, link, fresh, other) ==
    LET first == CleanupPass(Load(items), fs, t, fail)
        doc == AfterCleanup(items, first)
        saved == Append(Load(doc), NewItem(req, item_id, first.fs, t))
    IN  IF ~SafeRelpath(req.relpath)
        THEN Ended("ValueError", "path", doc, first.fs, fresh, 1, <<>>, other)
        ELSE IF link /\ req.relpath = "derived/escape/file.txt"
        THEN Ended("ValueError", "path", doc, first.fs, fresh, 1, <<>>, other)
        ELSE IF ~Exists(first.fs, req.relpath)
        THEN Ended("FileNotFoundError", "stat", doc, first.fs, fresh, 1, <<>>, other)
        ELSE Ended("", "", saved, first.fs, fresh, 1,
                   <<NewItem(req, item_id, first.fs, t)>>, other)

\* ManifestRepository.add_item on a stored session; fresh: the session has
\* no directory yet; link: the symbolic link derived/escape is planted
AddItemTo(items, fs, t, fail, req, item_id, link, fresh, other) ==
    LET saved == Append(Load(items), NewItem(req, item_id, fs, t))
        pass == CleanupPass(Load(saved), fs, t, fail)
    IN  IF ~SafeRelpath(req.relpath)
        THEN Ended("ValueError", "path", items, fs, fresh, 0, <<>>, other)
        ELSE IF link /\ req.relpath = "derived/escape/file.txt"
        THEN Ended("ValueError", "path", items, fs, fresh, 0, <<>>, other)
        ELSE IF ~Exists(fs, req.relpath)
        THEN Ended("FileNotFoundError", "stat", items, fs, fresh, 0, <<>>, other)
        ELSE Ended("", "", AfterCleanup(saved, pass), pass.fs, fresh, 1,
                   <<NewItem(req, item_id, fs, t)>>, other)

\* a write_text_file that replaces an existing file whatever overwrite says
WriteTextFileOverwrites(items, fs, t, fail, relpath, overwrite, item_id, link, fresh, shared, other) ==
    LET pass == CleanupPass(Load(items), fs, t, fail)
        doc == AfterCleanup(items, pass)
        target == UnderDerived(relpath)
        written == [pass.fs EXCEPT ![target] = 2]
        \* target.suffix.lstrip(".") or "txt"
        fmt == IF relpath = "n.md" THEN "md" ELSE "txt"
        added == AddItemTo(doc, written, t, fail,
                           Request("derived", fmt, target, FALSE, cfg.default_ttl_sec),
                           item_id, link, FALSE, other)
    IN  IF ~SafeRelpath(relpath)
        THEN Ended("ValueError", "path", items, fs, FALSE, 0, <<>>, other)
        ELSE IF link /\ relpath = "escape/file.txt"
        THEN Ended("ValueError", "path", doc, pass.fs, fresh, 1, <<>>, other)
        ELSE IF FALSE
        THEN Ended("ValueError", "exists", doc, pass.fs, fresh, 1, <<>>, other)
        ELSE IF shared
        \* the text is written; target.relative_to(session_root) then raises
        THEN Ended("ValueError", "relative", doc, pass.fs, fresh, 1, <<>>,
                   [other EXCEPT ![target] = 2])
        ELSE [added EXCEPT !.made = fresh, !.passes = added.passes + 1]

\* SessionService.write_text_file on a stored session; shared: the
\* session's derived is a symbolic link to the derived directory of another
\* session, whose files are other
WriteTextFile(items, fs, t, fail, relpath, overwrite, item_id, link, fresh, shared, other) ==
    LET pass == CleanupPass(Load(items), fs, t, fail)
        doc == AfterCleanup(items, pass)
        target == UnderDerived(relpath)
        written == [pass.fs EXCEPT ![target] = 2]
        \* target.suffix.lstrip(".") or "txt"
        fmt == IF relpath = "n.md" THEN "md" ELSE "txt"
        added == AddItemTo(doc, written, t, fail,
                           Request("derived", fmt, target, FALSE, cfg.default_ttl_sec),
                           item_id, link, FALSE, other)
    IN  IF ~SafeRelpath(relpath)
        THEN Ended("ValueError", "path", items, fs, FALSE, 0, <<>>, other)
        ELSE IF link /\ relpath = "escape/file.txt"
        THEN Ended("ValueError", "path", doc, pass.fs, fresh, 1, <<>>, other)
        ELSE IF (IF shared THEN Exists(other, target) ELSE Exists(pass.fs, target))
                /\ ~overwrite
        THEN Ended("ValueError", "exists", doc, pass.fs, fresh, 1, <<>>, other)
        ELSE IF shared
        \* the text is written; target.relative_to(session_root) then raises
        THEN Ended("ValueError", "relative", doc, pass.fs, fresh, 1, <<>>,
                   [other EXCEPT ![target] = 2])
        ELSE [added EXCEPT !.made = fresh, !.passes = added.passes + 1]

InitWrite ==
    /\ InitSession({Uncapped(FALSE)}, {"txt"}, {})
    /\ input \in [op : {"write_text_file", "add_item"}, items : ListedManifests,
                  files : ListedFiles, below : BOOLEAN, now : Ticks,
                  relpath : UnsafePaths \cup {"n.txt", "n.md", "escape/file.txt"},
                  overwrite : BOOLEAN, link : BOOLEAN,
                  fresh : BOOLEAN, shared : BOOLEAN, other : {Missing, 1}]
    /\ input.link => ~input.below
    /\ input.shared => /\ input.op = "write_text_file"
                       /\ ~input.fresh /\ ~input.link /\ ~input.below
                       /\ \A i \in 1..Len(input.items) :
                              input.items[i].kind = "transcript"
                       /\ \A p \in Paths \ {"transcripts/t.txt"} : input.files[p] = Missing
    /\ ~input.shared => input.other = Missing
    /\ input.fresh => /\ input.items = <<>> /\ ~input.link /\ ~input.below
                      /\ \A p \in Paths : input.files[p] = Missing
    /\ output = NoCall

WriteCall ==
    /\ output = NoCall
    /\ \E fail \in FailSets :
        LET \* the files of the session, with the path below derived/escape
            \* if that is a directory
            fs == [p \in Paths \cup {"derived/escape/file.txt"} |->
                      IF p \in Paths THEN input.files[p]
                      ELSE IF input.below THEN 1 ELSE Missing]
            \* the files in the derived directory of the other session
            other == [p \in DOMAIN fs \ {"transcripts/t.txt"} |->
                         IF p = "derived/n.txt" THEN input.other ELSE Missing]
            rel == IF SafeRelpath(input.relpath) THEN UnderDerived(input.relpath)
                   ELSE input.relpath
            ended == IF input.op = "write_text_file"
                     THEN WriteTextFile(input.items, fs, input.now, fail, input.relpath,
                                        input.overwrite, 3, input.link, input.fresh,
                                        input.shared, other)
                     ELSE AddItemTo(input.items, fs, input.now, fail,
                                    Request("derived", "txt", rel, FALSE,
                                            cfg.default_ttl_sec),
                                    3, input.link, input.fresh, other)
        IN  output' = [op |-> input.op, before |-> fs, other |-> other, ended |-> ended]
    /\ UNCHANGED <<manifest, files, now, usedIds, cfg, exts, last, stepVars, input>>

SpecWrite == InitWrite /\ [][WriteCall]_vars

\* ------------------------------------------------- YtDlpClient.get_info
\* The metadata client (adapters/ytdlp_client.py). input holds its
\* cache_ttl_sec; output holds _info_cache (url -> <<>> or <<ts, payload>>),
\* the history of the last successful fetch of each url and the last call;
\* now is the clock time_provider reads, up to MaxClock ticks.
Urls == {"a", "b"}
Payloads == {"first", "second"}
\* what the external command does: it times out, exits non-zero, prints no
\* JSON line, prints a line that does not parse, or prints a payload
ProcResults == {"timeout", "nonzero", "nojson", "badjson"} \cup Payloads
InfoTtls == {0, 1}

\* a get_info whose cached result is stale once its age reaches the TTL
GetInfoStrict(info_cache, cache_ttl_sec, url, t1, t2, ran) ==
    LET cached == info_cache[url]
        hit == /\ cache_ttl_sec > 0
               /\ cached # <<>>
               /\ t1 - cached[1] < cache_ttl_sec * TicksPerSec
    IN  IF hit
        THEN [info_cache |-> info_cache, invoked |-> FALSE, raised |-> "",
              ret |-> cached[2]]
        ELSE IF ran = "timeout"
        THEN [info_cache |-> info_cache, invoked |-> TRUE,
              raised |-> "TimeoutExpired", ret |-> ""]
        ELSE IF ran \notin Payloads
        THEN [info_cache |-> info_cache, invoked |-> TRUE,
              raised |-> "ExternalCommandError", ret |-> ""]
        ELSE [info_cache |-> IF cache_ttl_sec > 0
                             THEN [info_cache EXCEPT ![url] = <<t2, ran>>]
                             ELSE info_cache,
              invoked |-> TRUE, raised |-> "", ret |-> ran]

\* YtDlpClient.get_info: t1 is the clock when the cache is looked up, t2 the
\* clock when the fetched payload is stored, ran what the command did
GetInfo(info_cache, cache_ttl_sec, url, t1, t2, ran) ==
    LET cached == info_cache[url]
        hit == /\ cache_ttl_sec > 0
               /\ cached # <<>>
               /\ t1 - cached[1] <= cache_ttl_sec * TicksPerSec
    IN  IF hit
        THEN [info_cache |-> info_cache, invoked |-> FALSE, raised |-> "",
              ret |-> cached[2]]
        ELSE IF ran = "timeout"
        THEN [info_cache |-> info_cache, invoked |-> TRUE,
              raised |-> "TimeoutExpired", ret |-> ""]
        ELSE IF ran \notin Payloads
        THEN [info_cache |-> info_cache, invoked |-> TRUE,
              raised |-> "ExternalCommandError", ret |-> ""]
        ELSE [info_cache |-> IF cache_ttl_sec > 0
                             THEN [info_cache EXCEPT ![url] = <<t2, ran>>]
                             ELSE info_cache,
              invoked |-> TRUE, raised |-> "", ret |-> ran]

InitInfo ==
    /\ InitSession({Uncapped(FALSE)}, {"txt"}, {})
    /\ input \in [cache_ttl_sec : InfoTtls]
    /\ output = [info_cache |-> [u \in Urls |-> <<>>],
                 fetched |-> [u \in Urls |-> <<>>],
                 calls |-> 0,
                 call |-> [url |-> "", at |-> 0, invoked |-> FALSE, raised |-> "",
                           ret |-> ""]]

\* the clock time_provider reads advances
InfoTick ==
    /\ now < MaxClock
    /\ now' = now + 1
    /\ UNCHANGED <<manifest, files, usedIds, cfg, exts, last, stepVars, pureVars>>

\* one call of get_info; the command, when invoked, ends at t2
GetInfoCall ==
    \E url \in Urls, ran \in ProcResults, t2 \in now..MaxClock :
        LET r == GetInfo(output.info_cache, input.cache_ttl_sec, url, now, t2, ran)
        IN  /\ t2 <= now + 1
            /\ now' = IF r.invoked THEN t2 ELSE now
            /\ output' = [info_cache |-> r.info_cache,
                          fetched |-> IF r.invoked /\ r.raised = ""
                                      THEN [output.fetched EXCEPT ![url] = <<t2, ran>>]
                                      ELSE output.fetched,
                          calls |-> 1 - output.calls,
                          call |-> [url |-> url, at |-> now, invoked |-> r.invoked,
                                    raised |-> r.raised, ret |-> r.ret]]
            /\ UNCHANGED <<manifest, files, usedIds, cfg, exts, last, stepVars, input>>

SpecInfo == InitInfo /\ [][InfoTick \/ GetInfoCall]_vars

\* ============================================================ properties
Items == Load(manifest)

CleanupRan == last.op = "cleanup_session"

\* a cleanup pass ended the operation: cleanup_session itself, or add_item
PassEnded == last.op \in {"cleanup_session", "add_item"}

\* C1: a pinned item whose relpath is safe and whose file exists when
\* cleanup_session is called is still in the manifest when it returns.
C1_PinnedSurvivesCleanup ==
    [][last'.op = "cleanup_session" =>
        \A i \in 1..Len(Items) :
            (Items[i].pinned /\ SafeRelpath(Items[i].relpath) /\ Exists(files, Items[i].relpath))
            => Items[i].id \in ItemIds(Load(manifest'))]_vars

\* C2: every manifest item with pinned = true has expires_at = null.
C2_PinnedHasNoExpiry ==
    \A i \in 1..Len(manifest) : manifest[i].pinned => manifest[i].expires_at = Null

C2_Witness ==
    /\ last.op = "pin_item" /\ last.ok
    /\ \E i \in 1..Len(Items) : Items[i].id = last.id /\ Items[i].pinned

\* an unpinned item whose expires_at has passed at clock t
Expired(item, t) ==
    ~item.pinned /\ item.expires_at # Null /\ t >= ParseIsoTimestamp(item.expires_at)

\* C3 as stated: an unpinned item with expires_at in the past is gone from
\* the manifest after the next cleanup_session, and so is its file.
C3_ExpiredRemovedWithFile ==
    [][last'.op = "cleanup_session" =>
        \A i \in 1..Len(Items) :
            Expired(Items[i], now)
            => /\ Items[i].id \notin ItemIds(Load(manifest'))
               /\ ~Exists(files', Items[i].relpath)]_vars

\* C3 amended: the item is gone from the manifest, and its file is gone
\* unless unlinking it raised OSError.
C3_ExpiredRemovedFileBestEffort ==
    [][last'.op = "cleanup_session" =>
        \A i \in 1..Len(Items) :
            Expired(Items[i], now)
            => /\ Items[i].id \notin ItemIds(Load(manifest'))
               /\ Exists(files', Items[i].relpath) => Items[i].relpath \in last'.failed]_vars

C3_Witness ==
    /\ CleanupRan /\ last.expired # {} /\ last.failed = {}
    /\ \E p \in Paths : ~Exists(files, p)

Precedes(a, b) == a[1] < b[1] \/ (a[1] = b[1] /\ a[2] < b[2])

\* C5: every item evicted for capacity precedes, in (created_at, id) order,
\* every unpinned item that survives the pass.
C5_EvictsOldestFirst ==
    PassEnded =>
        \A e \in last.evicted : \A i \in 1..Len(Items) :
            ~Items[i].pinned => Precedes(e, <<Items[i].created_at, Items[i].id>>)

C5_Witness ==
    /\ PassEnded /\ last.evicted # {}
    /\ \E i \in 1..Len(Items) : ~Items[i].pinned
    /\ \E e \in last.evicted : \E i \in 1..Len(Items) : ~Items[i].pinned /\ e[2] > Items[i].id

\* C6: a second cleanup_session right after the first (same clock, same
\* files) removes nothing and leaves the manifest as it is.
C6_CleanupIdempotent ==
    CleanupRan =>
        \A fail \in FailSets :
            /\ CleanupPass(Items, files, now, fail).removed = 0
            /\ AfterCleanup(manifest, CleanupPass(Items, files, now, fail)) = manifest

\* C7: right after a cleanup pass every item of the persisted manifest has
\* a safe relpath whose file exists.
C7_KeptItemsHaveFiles ==
    CleanupRan =>
        \A i \in 1..Len(manifest) :
            SafeRelpath(manifest[i].relpath) /\ Exists(files, manifest[i].relpath)

C9_NeverTruncatedOrEmpty ==
    names[ManifestName] # NoInode => inodes[names[ManifestName]].state = "complete"

\* C9 amended: whatever step a save is interrupted at, load returns the
\* items of the previous manifest or those of the new one (a zero-byte
\* manifest.json, which the lock's open creates, reads as no manifest).
C9_LoadSeesPreviousOrNew ==
    \A p \in Procs :
        proc[p].pc # "off" =>
            ReadManifest(names, inodes) \in {proc[p].before, Load(proc[p].doc)}

C9_Witness ==
    /\ proc[1].pc = "idle"
    /\ names[TmpName(ManifestName)] # NoInode
    /\ inodes[names[TmpName(ManifestName)]].state = "partial"
    /\ ReadManifest(names, inodes) # <<>>
    /\ ReadManifest(names, inodes) = proc[1].before

\* C10: with the lock enabled no update of concurrent mutators is lost:
\* every item add_item has returned is in the manifest.
C10_NoLostUpdate ==
    cfg.use_lock => returned \subseteq ItemIds(ReadManifest(names, inodes))

\* C11: with concurrent unlocked saves no save ends with an error and
\* manifest.json, whenever it exists, is a complete document.
C11_UnlockedSavesComplete ==
    ~cfg.use_lock =>
        /\ \A p \in Procs : ~proc[p].failed
        /\ names[ManifestName] # NoInode => inodes[names[ManifestName]].state = "complete"

\* an entry all of whose fields from_dict accepts
WellFormedEntry(raw) ==
    /\ raw.id # "not_mapping"
    /\ ValidId(raw.id) /\ raw.kind \in ItemKind /\ raw.format \in TranscriptFormat
    /\ raw.size = "1" /\ raw.relpath # "absent"

\* C12: load raises on no content of manifest.json; it returns no item
\* for a file that is not a JSON object, and for an object exactly its
\* well-formed entries, in order.
C12_LoadNeverRaises ==
    output.op = "load" =>
        /\ output.result.raised = "none"
        /\ Len(output.result.items) = Len(SelectSeq(input.items, WellFormedEntry))
        /\ \A i \in 1..Len(output.result.items) :
               output.result.items[i].id = SelectSeq(input.items, WellFormedEntry)[i].id

\* C13: resolve_relpath raises for every relpath that is empty, starts
\* with "/" or has a ".." segment, whatever links the session root holds.
C13_UnsafeRelpathRaises ==
    (/\ output.op = "resolve_relpath"
     /\ \/ input.relpath = <<"">>
        \/ Len(input.relpath) >= 2 /\ input.relpath[1] = ""
        \/ \E i \in 1..Len(input.relpath) : input.relpath[i] = "..")
    => output.result.raised = "ValueError"

C13_Witness ==
    /\ output.op = "resolve_relpath"
    /\ input.relpath = <<"a", "..", "a">> /\ input.links = Links
    /\ output.result.raised = "ValueError"

\* C14: a path resolve_relpath returns is the session root or below it
\* once links are followed, and a relpath through a link of the session
\* root that points outside it raises.
C14_ReturnedPathWithinRoot ==
    output.op = "resolve_relpath" =>
        /\ output.result.raised = "none" =>
              /\ Len(output.result.path) >= Len(SessionRoot)
              /\ \A i \in 1..Len(SessionRoot) : output.result.path[i] = SessionRoot[i]
        /\ ("out" \in input.links /\ Head(input.relpath) = "out")
              => output.result.raised = "ValueError"

C14_Witness ==
    /\ output.op = "resolve_relpath"
    /\ input.relpath = <<"out", "a">> /\ input.links = Links
    /\ output.result.raised = "ValueError"

\* C15 as stated: delete_item with an id that is not in the manifest
\* raises NotFound and the manifest after the call equals the one before.
C15_DeleteAbsentLeavesManifest ==
    [][(last'.op = "delete_item" /\ last'.id \notin ItemIds(Items))
        => (~last'.ok /\ manifest' = manifest)]_vars

\* C15 amended: delete_item with an id that is not in the manifest raises
\* NotFound and changes the manifest and the files only as the cleanup
\* pass it starts with does.
C15_DeleteAbsentOnlyCleans ==
    [][(last'.op = "delete_item" /\ last'.id \notin ItemIds(Items))
        => /\ ~last'.ok
           /\ \E fail \in FailSets :
                 /\ manifest' = AfterCleanup(manifest, CleanupPass(Items, files, now, fail))
                 /\ files' = CleanupPass(Items, files, now, fail).fs]_vars

C15_Witness ==
    /\ last.op = "delete_item" /\ ~last.ok
    /\ last.expired # {} /\ last.id \notin last.expired

\* C16: delete_item on an item it finds removes exactly that entry (the
\* other survivors of its cleanup pass stay, in order), returns success,
\* and the item's file is gone unless unlinking it failed.
C16_DeleteRemovesExactlyTarget ==
    [][(last'.op = "delete_item" /\ last'.ok)
        => /\ last'.id \notin ItemIds(Load(manifest'))
           /\ \E fail \in FailSets :
                 LET cleaned == Load(AfterCleanup(manifest, CleanupPass(Items, files, now, fail)))
                 IN  /\ Len(Load(manifest')) = Len(cleaned) - 1
                     /\ \A i \in 1..Len(cleaned) :
                           cleaned[i].id # last'.id
                           => \E j \in 1..Len(Load(manifest')) : Load(manifest')[j] = cleaned[i]
           /\ \A i \in 1..Len(Items) :
                 (Items[i].id = last'.id /\ Exists(files', Items[i].relpath))
                 => Items[i].relpath \in last'.failed]_vars

C16_Witness ==
    /\ last.op = "delete_item" /\ last.ok
    /\ last.failed # {}
    /\ Items # <<>>

\* C17: the count cleanup_session returns is the number of entries the pass
\* dropped from the manifest, whatever the reason of the drop.
C17_CountIsEntriesDropped ==
    output.op = "cleanup_session"
    => output.result = Len(Load(input.items)) - Len(output.pass.kept)

\* C18: after a cleanup pass every surviving unpinned item has an expires_at,
\* which lies strictly after the clock value of the pass; an unpinned item
\* that had none got the stamp (of second precision) of now + default_ttl_sec.
C18_SurvivorsExpireLater ==
    output.op = "cleanup_session"
    => LET kept == output.pass.kept
           stored == Load(input.items)
       IN  \A i \in 1..Len(kept) :
              ~kept[i].pinned
              => /\ kept[i].expires_at # Null
                 /\ ParseIsoTimestamp(kept[i].expires_at) > input.now
                 /\ \A j \in 1..Len(stored) :
                       (stored[j].id = kept[i].id /\ stored[j].expires_at = Null)
                       => LET due == input.now + cfg.default_ttl_sec * TicksPerSec
                          IN  /\ ParseIsoTimestamp(kept[i].expires_at) <= due
                              /\ due < ParseIsoTimestamp(kept[i].expires_at + 1)

\* an unpinned item without expires_at survives a pass run off the second
C18_Witness ==
    /\ output.op = "cleanup_session"
    /\ input.now % TicksPerSec # 0
    /\ \E i \in 1..Len(output.pass.kept), j \in 1..Len(input.items) :
          /\ input.items[j].id = output.pass.kept[i].id
          /\ ~input.items[j].pinned
          /\ input.items[j].expires_at = Null

\* C19: entries a pass removes for a missing file or for expiry are out of
\* the capacity tallies: when the items left by the scan (those kept and
\* those evicted) are within every enabled cap, the pass evicts none.
C19_NoEvictionWhenSurvivorsFit ==
    output.op = "cleanup_session"
    => LET pass == output.pass
       IN  ~OverCaps(Len(pass.kept) + Len(pass.evicted),
                     SumSizes(pass.kept) + SumSizes(pass.evicted))
           => pass.evicted = <<>>

\* the stored entries exceed a cap, one is removed for its file or its
\* expiry, and the unpinned survivor is not evicted
C19_Witness ==
    /\ output.op = "cleanup_session"
    /\ output.pass.missing \cup output.pass.expired # {}
    /\ OverCaps(Len(Load(input.items)), SumSizes(Load(input.items)))
    /\ output.pass.evicted = <<>>
    /\ \E i \in 1..Len(output.pass.kept) : ~output.pass.kept[i].pinned

\* C20: a cleanup pass writes the manifest file only when it changed
\* something: a pass that drops no entry, assigns no expires_at and refreshes
\* no size (the items kept are the items loaded) does not write it.
C20_SavesOnlyWhenChanged ==
    output.op = "cleanup_session"
    => /\ output.pass.kept = Load(input.items) => ~output.saved
       /\ output.saved => output.pass.kept # Load(input.items)

\* a pass over two items with caps enabled that leaves them as they are
C20_Witness ==
    /\ output.op = "cleanup_session"
    /\ Len(output.pass.kept) = 2
    /\ output.pass.kept = Load(input.items)
    /\ cfg.max_session_bytes > 0
    /\ ~output.saved

\* the operations of SessionService that change one item
Mutators == {"pin_item", "unpin_item", "set_item_ttl", "delete_item"}

\* C21: pin_item, unpin_item, set_item_ttl and delete_item called on an
\* unpinned item whose expires_at has passed raise NotFound, and the item is
\* not in the manifest afterwards.
C21_ExpiredItemNotUpdated ==
    [][last'.op \in Mutators
        => \A i \in 1..Len(Items) :
              (Items[i].id = last'.id /\ Expired(Items[i], now))
              => /\ ~last'.ok
                 /\ last'.id \notin ItemIds(Load(manifest'))]_vars

\* the call was rejected for its arguments before it did anything
Rejected(outcome) == Len(outcome.ret) = 2 /\ outcome.ret[2] = "ValueError"

\* C21, for the calls that are not rejected for their arguments: the four
\* mutators called on an unpinned item whose expires_at has passed raise
\* NotFound and the item is not in the manifest afterwards; a set_item_ttl
\* rejected for its ttl_seconds leaves the item as it is.
C21_ExpiredItemNotUpdatedIfAccepted ==
    [][last'.op \in Mutators
        => \A i \in 1..Len(Items) :
              (Items[i].id = last'.id /\ Expired(Items[i], now))
              => IF Rejected(last')
                 THEN ~last'.ok /\ manifest' = manifest
                 ELSE ~last'.ok /\ last'.id \notin ItemIds(Load(manifest'))]_vars

\* set_item_ttl reached an item that its own cleanup pass expired
C21_Witness ==
    /\ last.op = "set_item_ttl"
    /\ ~last.ok
    /\ last.id \in last.expired

\* the stamp is that of instant t + ttl_seconds, at second precision
StampOf(stamp, ttl_seconds, t) ==
    /\ stamp # Null
    /\ ParseIsoTimestamp(stamp) <= t + ttl_seconds * TicksPerSec
    /\ t + ttl_seconds * TicksPerSec < ParseIsoTimestamp(stamp + 1)

\* C22: on an item they find, pin_item gives pinned = true and no
\* expires_at, unpin_item pinned = false and expires_at = now + default_ttl,
\* set_item_ttl pinned = false and expires_at = now + ttl (also on a pinned
\* item); the values returned are those a following load shows.
C22_UpdatersSetAndPersist ==
    [][(last'.op \in {"pin_item", "unpin_item", "set_item_ttl"} /\ last'.ok)
        => /\ \E i \in 1..Len(Load(manifest')) :
                 /\ Load(manifest')[i].id = last'.id
                 /\ Load(manifest')[i].pinned = last'.ret[2]
                 /\ Load(manifest')[i].expires_at = last'.ret[3]
           /\ last'.op = "pin_item" => (last'.ret[2] /\ last'.ret[3] = Null)
           /\ last'.op = "unpin_item"
              => (~last'.ret[2] /\ StampOf(last'.ret[3], cfg.default_ttl_sec, now))
           /\ last'.op = "set_item_ttl"
              => (~last'.ret[2] /\ StampOf(last'.ret[3], last'.ret[1], now))]_vars

\* set_item_ttl succeeded after the clock advanced, with a TTL other than
\* the default one
C22_Witness ==
    /\ last.op = "set_item_ttl" /\ last.ok
    /\ now > 0
    /\ last.ret[1] # cfg.default_ttl_sec
    /\ \E i \in 1..Len(Items) :
          Items[i].id = last.id /\ ~Items[i].pinned /\ Items[i].expires_at = last.ret[3]

\* C23: set_item_ttl with ttl_seconds < 1 raises an error before anything
\* else: no cleanup pass runs, the manifest and the files stay as they are.
C23_BadTtlChangesNothing ==
    [][(last'.op = "set_item_ttl" /\ last'.ret # <<>> /\ last'.ret[1] < 1)
        => /\ Rejected(last')
           /\ ~last'.ok
           /\ manifest' = manifest
           /\ files' = files]_vars

\* the call was rejected while an expired item, which a cleanup pass would
\* remove, is in the manifest
C23_Witness ==
    /\ last.op = "set_item_ttl"
    /\ Rejected(last)
    /\ \E i \in 1..Len(Items) : Items[i].id = last.id /\ Expired(Items[i], now)

\* C24: the item add_item returns has an id no item had before, created_at
\* = the clock's now (at second precision), the size of the file as it is
\* when add_item is called, and expires_at = null if pinned, else now +
\* ttl_seconds, for the same reading of the clock.
C24_NewItemFields ==
    [][last'.op = "add_item"
        => LET relpath == last'.ret[1]
               pinned == last'.ret[4]
               ttl_seconds == last'.ret[5]
               item == last'.ret[6]
           IN  /\ item.id = last'.id
               /\ item.id \notin usedIds
               /\ item.id \notin ItemIds(Items)
               /\ ParseIsoTimestamp(item.created_at) <= now
               /\ now < ParseIsoTimestamp(item.created_at + 1)
               /\ Exists(files', relpath) => item.size = files'[relpath]
               /\ item.pinned = pinned
               /\ pinned => item.expires_at = Null
               /\ ~pinned => StampOf(item.expires_at, ttl_seconds, now)]_vars

\* an unpinned item added off the whole second, with its file in place
C24_Witness ==
    /\ last.op = "add_item"
    /\ ~last.ret[4]
    /\ now % TicksPerSec # 0
    /\ Exists(files, last.ret[1])
    /\ last.ret[6] \in {Items[i] : i \in 1..Len(Items)}

\* C25: list_items returns exactly the items that survive its cleanup pass
\* and match every filter supplied (kind, format, pinned), in manifest order.
C25_ListReturnsMatching ==
    output.op = "list_items"
    => LET Matches(item) ==
               /\ input.kind = {} \/ item.kind \in input.kind
               /\ input.format = {} \/ item.format \in input.format
               /\ input.pinned = {} \/ item.pinned \in input.pinned
       IN  output.result = SelectSeq(output.survivors, Matches)

RECURSIVE JoinData(_)
JoinData(pages) == IF pages = <<>> THEN <<>> ELSE Head(pages).data \o JoinData(Tail(pages))

\* C26: a successful read_file_chunk(offset, max_bytes) of a file of S bytes
\* returns the bytes [offset, min(offset + max_bytes, S)) with next_offset the
\* end of that range and eof exactly when next_offset >= S; at offset >= S it
\* returns no data, eof and next_offset = offset; paging from offset 0 reaches
\* eof after ceil(S / max_bytes) calls whose data, joined, is the file
C26_ChunkIsByteRange ==
    (output.op = "read_file_chunk" /\ output.raised = "") =>
        LET S == Len(input.content)
            end == IF input.offset + input.max_bytes < S
                   THEN input.offset + input.max_bytes ELSE S
            chunk == output.chunk
            pages == output.pages
        IN  /\ input.offset < S =>
                /\ chunk.data = SubSeq(input.content, input.offset + 1, end)
                /\ chunk.next_offset = end
                /\ chunk.eof <=> (end >= S)
            /\ input.offset >= S =>
                chunk.data = <<>> /\ chunk.eof /\ chunk.next_offset = input.offset
            /\ S >= 1 =>
                /\ Len(pages) * input.max_bytes >= S
                /\ (Len(pages) - 1) * input.max_bytes < S
                /\ pages[Len(pages)].eof
                /\ \A i \in 1..(Len(pages) - 1) : ~pages[i].eof
                /\ JoinData(pages) = input.content

\* C27: an operation called with a session id, or an item id it takes, that
\* is not 1 to 64 characters of [A-Za-z0-9_-] raises the invalid-identifier
\* error and creates no directory
C27_InvalidIdStopsBeforeIo ==
    LET WellFormed(value) == /\ (value.pad + Len(value.tail)) \in 1..IdMaxLen
                             /\ \A i \in 1..Len(value.tail) : value.tail[i] = "a"
    IN  (/\ output.op \in SessionOps
         /\ \/ ~WellFormed(output.session_id)
            \/ output.op \in ItemOps /\ ~WellFormed(output.item_id))
        => /\ output.raised \in {"InvalidSessionId", "InvalidItemId"}
           /\ output.dirs = {}

\* C28: when add_item or write_text_file fails with a path violation, no
\* directory has been created, no file written or deleted and the manifest
\* is unchanged
C28_PathViolationBeforeAnyFileOperation ==
    (output.op \in {"write_text_file", "add_item"} /\ output.ended.why = "path") =>
        /\ ~output.ended.made
        /\ output.ended.fs = output.before
        /\ output.ended.items = input.items

\* C29 as stated: write_text_file with overwrite=false onto a path where a
\* derived file exists fails with the already-exists error, leaves that file
\* as it was and adds no manifest entry
C29_ExistingFileNotReplaced ==
    (/\ output.op = "write_text_file" /\ ~input.overwrite
     /\ SafeRelpath(input.relpath)
     /\ ~(input.link /\ input.relpath = "escape/file.txt")
     /\ Exists(output.before, UnderDerived(input.relpath)))
    => /\ output.ended.raised = "ValueError" /\ output.ended.why = "exists"
       /\ output.ended.fs[UnderDerived(input.relpath)]
              = output.before[UnderDerived(input.relpath)]
       /\ \A i \in 1..Len(output.ended.items) : output.ended.items[i].id # 3

\* C29: the same, for an existing file that is not the file of an item the
\* cleanup pass run first finds expired
C29_UnexpiredFileNotReplaced ==
    (/\ output.op = "write_text_file" /\ ~input.overwrite
     /\ SafeRelpath(input.relpath)
     /\ ~(input.link /\ input.relpath = "escape/file.txt")
     /\ Exists(output.before, UnderDerived(input.relpath))
     /\ \A i \in 1..Len(input.items) :
            input.items[i].relpath = UnderDerived(input.relpath)
                => ~Expired(input.items[i], input.now))
    => /\ output.ended.raised = "ValueError" /\ output.ended.why = "exists"
       /\ output.ended.fs[UnderDerived(input.relpath)]
              = output.before[UnderDerived(input.relpath)]
       /\ \A i \in 1..Len(output.ended.items) : output.ended.items[i].id # 3

C29_Witness ==
    /\ output.op = "write_text_file" /\ ~input.overwrite
    /\ input.relpath = "n.txt" /\ Exists(output.before, "derived/n.txt")
    /\ \E i \in 1..Len(input.items) :
           input.items[i].relpath = "derived/n.txt" /\ ~Expired(input.items[i], input.now)
    /\ output.ended.why = "exists" /\ output.ended.passes = 1

\* C30: an operation invoked with one session id leaves the files of every
\* other session unchanged
C30_OtherSessionUnchanged ==
    output.op \in {"write_text_file", "add_item"} => output.ended.other = output.other

\* C31: write_text_file never creates or overwrites a file outside the
\* session's derived directory; a relpath that is empty, absolute, has a
\* ".." segment or resolves through a symbolic link to outside derived is
\* rejected and nothing is written; on success the registered item is of
\* kind derived with a relpath under derived
C31_WritesOnlyUnderDerived ==
    output.op = "write_text_file" =>
        /\ output.ended.other = output.other
        /\ output.ended.fs["transcripts/t.txt"] \in {output.before["transcripts/t.txt"], Missing}
        /\ (~SafeRelpath(input.relpath) \/ (input.link /\ input.relpath = "escape/file.txt"))
               => /\ output.ended.raised = "ValueError"
                  /\ \A p \in DOMAIN output.before :
                         output.ended.fs[p] \in {output.before[p], Missing}
        /\ output.ended.raised = ""
               => /\ output.ended.ret[1].kind = "derived"
                  /\ output.ended.ret[1].relpath = UnderDerived(input.relpath)

\* C32: no operation changes the id, kind, format, relpath or created_at of
\* an item that stays in the manifest; a successful pin_item, unpin_item or
\* set_item_ttl changes only pinned and expires_at of its target and the size
\* a cleanup pass refreshes, and leaves pinned and expires_at of every other
\* item as they were; a cleanup pass changes only size, and expires_at where
\* it was absent
C32_IdentityFieldsKept ==
    [][LET ItemOf(items, id) == items[CHOOSE i \in 1..Len(items) : items[i].id = id]
       IN  \A id \in ItemIds(Load(manifest)) \cap ItemIds(Load(manifest')) :
             LET old == ItemOf(Load(manifest), id)
                 new == ItemOf(Load(manifest'), id)
             IN  /\ <<new.id, new.kind, new.format, new.relpath, new.created_at>>
                        = <<old.id, old.kind, old.format, old.relpath, old.created_at>>
                 /\ (last'.op \in Mutators /\ last'.ok /\ last'.id = id)
                        => [new EXCEPT !.pinned = old.pinned, !.expires_at = old.expires_at,
                                       !.size = old.size] = old
                 /\ ~(last'.op \in Mutators /\ last'.ok /\ last'.id = id)
                        => /\ new.pinned = old.pinned
                           /\ new.expires_at # old.expires_at
                                  => ~old.pinned /\ old.expires_at = Null]_vars

C32_Witness ==
    /\ last.op \in Mutators /\ last.ok
    /\ Len(Items) = 2
    /\ \E i \in 1..2 : Items[i].id # last.id /\ ~Items[i].pinned

\* C33: with both caps disabled, cleanup_session removes an item only if its
\* relpath is empty or unsafe, its file is missing, or it is unpinned and
\* expired; an unpinned item whose expires_at is in the future and whose file
\* exists stays in the manifest and keeps its file
C33_RemovedOnlyForCause ==
    (/\ output.op = "cleanup_session"
     /\ cfg.max_session_items = 0 /\ cfg.max_session_bytes = 0) =>
        \A i \in 1..Len(Load(input.items)) :
            LET item == Load(input.items)[i]
                sound == SafeRelpath(item.relpath) /\ Exists(input.files, item.relpath)
            IN  /\ item.id \notin ItemIds(output.pass.kept)
                    => \/ ~sound
                       \/ ~item.pinned /\ item.expires_at = Null
                       \/ Expired(item, input.now)
                /\ (sound /\ ~item.pinned /\ item.expires_at # Null
                    /\ ~Expired(item, input.now))
                    => /\ item.id \in ItemIds(output.pass.kept)
                       /\ Exists(output.pass.fs, item.relpath)

\* C34: no two items of the manifest have the same relpath
C34_RelpathsDistinct ==
    \A i, j \in 1..Len(Items) : i # j => Items[i].relpath # Items[j].relpath

\* C35: cleanup_session, and delete_item called with another item's id,
\* leave the file of every pinned item in place
C35_PinnedFileNeverDeleted ==
    [][last'.op \in {"cleanup_session", "delete_item"} =>
        \A i \in 1..Len(Items) :
            (/\ Items[i].pinned
             /\ ~(last'.op = "delete_item" /\ last'.id = Items[i].id)
             /\ Exists(files, Items[i].relpath))
            => Exists(files', Items[i].relpath)]_vars

\* C36 as stated: the pass that ends add_item never evicts the item just
\* registered while an unpinned item registered earlier stays in the manifest
C36_NewItemNotEvictedFirst ==
    [][(last'.op = "add_item" /\ \E e \in last'.evicted : e[2] = last'.id) =>
          \A i \in 1..Len(Load(manifest')) : Load(manifest')[i].pinned]_vars

\* C36: the same, for unpinned items registered in an earlier clock second
C36_NewItemNotEvictedBeforeOlder ==
    [][(last'.op = "add_item" /\ \E e \in last'.evicted : e[2] = last'.id) =>
          \A i \in 1..Len(Load(manifest')) :
              \/ Load(manifest')[i].pinned
              \/ Load(manifest')[i].created_at = NowIso(now)]_vars

C36_Witness ==
    /\ last.op = "add_item" /\ last.evicted # {}
    /\ \E i \in 1..Len(Items) :
           /\ Items[i].id = last.id /\ ~Items[i].pinned
           /\ \E e \in last.evicted : e[1] < Items[i].created_at

\* C37: once every registration that was started has returned and no call
\* is running, every artifact file on disk has an entry in the manifest
C37_NoUntrackedFile ==
    (/\ \A p \in Procs : proc[p].pc \in {"idle", "off"}
     /\ returned = usedIds) =>
        \A path \in Paths :
            Exists(files, path) =>
                \E i \in 1..Len(ReadManifest(names, inodes)) :
                    ReadManifest(names, inodes)[i].relpath = path

C39_FailedAddLeavesManifest ==
    (/\ output # NoCall
     /\ output.op = "add_item"
     /\ \/ ~SafeRelpath(input.relpath)
        \/ input.link /\ input.relpath = "escape/file.txt"
        \/ ~Exists(output.before, UnderDerived(input.relpath))) =>
        /\ output.ended.raised \in {"ValueError", "FileNotFoundError"}
        /\ output.ended.items = input.items
        /\ 3 \notin ItemIds(Load(output.ended.items))
        /\ output.ended.passes = 0
        /\ output.ended.fs = output.before
        /\ output.ended.ret = <<>>

\* an add_item that failed on a session holding an expired item, which a
\* cleanup pass would have removed
C39_Witness ==
    /\ output # NoCall
    /\ output.op = "add_item"
    /\ output.ended.why \in {"path", "stat"}
    /\ \E i \in 1..Len(Load(input.items)) : Expired(Load(input.items)[i], input.now)

\* C40: with cache_ttl_sec = T > 0, get_info(url) invokes the external
\* command exactly when no successful result for that url was fetched within
\* the last T seconds, and otherwise returns the payload of that last
\* successful fetch; a failed fetch leaves the cache as it was; with T = 0
\* every call invokes the command
C40_InfoCacheRespectsTtl ==
    [][output'.calls # output.calls =>
        LET c == output'.call
            fetched == output.fetched[c.url]
            recent == /\ fetched # <<>>
                      /\ now - fetched[1] <= input.cache_ttl_sec * TicksPerSec
        IN  /\ input.cache_ttl_sec > 0 =>
                /\ c.invoked <=> ~recent
                /\ ~c.invoked => c.raised = "" /\ c.ret = fetched[2]
            /\ input.cache_ttl_sec = 0 => c.invoked
            /\ c.raised # "" =>
                /\ output'.info_cache = output.info_cache
                /\ output'.fetched = output.fetched]_vars

\* a call answered from the cache at the last tick of the cached result's TTL
C40_Witness ==
    /\ output.calls = 1
    /\ ~output.call.invoked
    /\ output.call.at = output.fetched[output.call.url][1] + input.cache_ttl_sec * TicksPerSec
    /\ output.call.ret = output.fetched[output.call.url][2]

====
